---- MODULE Spec2Model ----
(***************************************************************************)
(* Model of fluid_nightmare_main (src/source/main.cpp): scene ingestion in *)
(* initialize() and the per-frame command recording in render().           *)
(***************************************************************************)
EXTENDS Integers, Sequences, FiniteSets, TLC

\* ------------------------------------------------------------------ bounds
MaxModels == 2
MaxMaterials == 3
MaxPlacements == 2
MaxFrames == 4          \* frames recorded in a run
MaxResizes == 2         \* swapchain-resize events in a run
MaxShaderReloads == 2   \* shader-file events in a run

\* Mutant of NumberOfFramesInFlight: one concurrent frame more.
OneMoreConcurrentFrame == 3 + 1

\* mainWnd->set_number_of_concurrent_frames(3u)
NumberOfFramesInFlight == 3

VARIABLES
  scene,                  \* orca->models(): per model its distinct-material count and placement count
  pc,                     \* position of the host thread
  modelIdx,               \* model the loop of line 39 is at
  partIdx,                \* partition the loop of line 49 is at
  materialData,
  mBlas,
  mGeometryInstances,
  mPositionsBufferViews,
  mIndexBufferViews,
  mNormalsBufferViews,
  mTexCoordsBufferViews,
  mBlasNamesAndRanges,
  mMaterialBuffer,
  mTlas,
  mOffscreenImageView,    \* handle of the current render target's image view, 0 before it exists
  mPipeline,
  mDescriptorCache,       \* the descriptor sets the cache holds
  imageViewsCreated,      \* image views created so far; the n-th has handle n
  superseded,             \* replaced image views the updater still keeps alive
  destroyed,              \* image views that were destroyed
  frames,                 \* one record per frame render() was entered for, in order
  updateUntilFrame,       \* the static of update(), line 204
  lastKeyDownFrame,       \* last frame (0-based) in whose update() a directional key was down, -1 if none
  tlasUpdates,            \* frames (0-based) in which an update of mTlas was issued
  stopRequested,          \* current_composition()->stop() was called
  shaderSources,          \* version of the shader files on disk
  shaderReloads,          \* shader_files_changed events handled
  exception,              \* type of the exception that left render(), "none" if none did
  errorLog,               \* what main() logged with LOG_ERROR
  imagesAvailable,        \* frames whose image-available semaphore was signalled
  mLightDir,              \* the light direction, its components in thousandths
  cameraEnabled,          \* mQuakeCam.is_enabled()
  uiUserInteraction,      \* <<b>> after enable_user_interaction(b), <<>> while the UI has its default
  modeBeforeLastPress,    \* camera and UI state before the last press of F1, <<>> before any
  uiRendered              \* frames the UI manager has run its callbacks for

ingestVars == <<scene, modelIdx, partIdx, materialData, mBlas, mGeometryInstances,
                mPositionsBufferViews, mIndexBufferViews, mNormalsBufferViews,
                mTexCoordsBufferViews, mBlasNamesAndRanges, mMaterialBuffer, mTlas>>

frameVars == <<mOffscreenImageView, mPipeline, mDescriptorCache, imageViewsCreated,
               superseded, destroyed, frames>>

updateVars == <<updateUntilFrame, lastKeyDownFrame, tlasUpdates, stopRequested>>

sessionVars == <<shaderSources, shaderReloads, exception, errorLog, imagesAvailable>>

uiVars == <<mLightDir, cameraEnabled, uiUserInteraction, modeBeforeLastPress, uiRendered>>

vars == <<pc, ingestVars, frameVars, updateVars, sessionVars, uiVars>>

\* A model of the scene: mats = |distinct_material_configs()|, insts = |mInstances|.
Models == [mats : 1..MaxMaterials, insts : 0..MaxPlacements]

Scenes == UNION { [1..n -> Models] : n \in 1..MaxModels }

NoTlas == [capacity |-> -1, built |-> -1]

Resource(kind, name, handle) == [kind |-> kind, name |-> name, handle |-> handle]

\* avk::descriptor_binding(set, binding, resource)
Binding(set, binding, resource) == [set |-> set, binding |-> binding, resource |-> resource]

\* mPipeline before line 131.
NoPipeline ==
  [handle |-> 0, sources |-> 0, renderTarget |-> 0, shaderTable |-> <<>>,
   pushConstants |-> [stages |-> {}, offset |-> 0, size |-> 0], bindings |-> <<>>]

\* ------------------------------------------------------------ initialize()

\* Mutants of BufferViewIndex: the running instance count, and the length read
\* after the partition's views were appended.
BufferViewIndexFromInstances(insts, texCoordsViews) == Len(insts)

BufferViewIndexAfterAppend(insts, texCoordsViews) == Len(texCoordsViews) + 1

\* Line 69
BufferViewIndex(insts, texCoordsViews) == Len(texCoordsViews)

\* Lines 68-79: one geometry instance per placement of the model, all of them
\* referring to the partition's BLAS and carrying the index read at line 69.
RECURSIVE AppendInstances(_, _, _, _, _)
AppendInstances(insts, blas, nPlacements, i, texCoordsViews) ==
  IF i > nPlacements THEN insts
  ELSE LET bufferViewIndex == BufferViewIndex(insts, texCoordsViews)
       IN AppendInstances(
            Append(insts, [blas |-> blas, placement |-> i, customIndex |-> bufferViewIndex]),
            blas, nPlacements, i + 1, texCoordsViews)

\* Lines 85-88: a buffer view created from one of the partition's buffers.
BufferView(kind, part) == [kind |-> kind, part |-> part]

\* Mutant of PushMaterial: a material already gathered for an earlier model is
\* not gathered again.
PushMaterialDeduplicated(materials, part) ==
  IF \E i \in 1..Len(materials) : materials[i].part[2] = part[2]
  THEN materials
  ELSE Append(materials, [part |-> part])

\* Line 50
PushMaterial(materials, part) == Append(materials, [part |-> part])

\* Lines 40-44
BeginModel ==
  /\ pc = "models"
  /\ modelIdx <= Len(scene)
  /\ mBlasNamesAndRanges' =
       Append(mBlasNamesAndRanges, <<modelIdx, Len(mGeometryInstances), -1>>)
  /\ partIdx' = 1
  /\ pc' = "partitions"
  /\ UNCHANGED <<scene, modelIdx, materialData, mBlas, mGeometryInstances,
                 mPositionsBufferViews, mIndexBufferViews, mNormalsBufferViews,
                 mTexCoordsBufferViews, mMaterialBuffer, mTlas, frameVars, updateVars, uiVars, sessionVars>>

\* Lines 49-89: one iteration of the loop over the model's distinct materials.
Partition ==
  /\ pc = "partitions"
  /\ partIdx <= scene[modelIdx].mats
  /\ LET part == <<modelIdx, partIdx>>
         blas == [part |-> part]
     IN /\ materialData' = PushMaterial(materialData, part)
        /\ mGeometryInstances' =
             AppendInstances(mGeometryInstances, blas, scene[modelIdx].insts, 1,
                             mTexCoordsBufferViews)
        /\ mBlas' = Append(mBlas, blas)
        /\ mPositionsBufferViews' = Append(mPositionsBufferViews, BufferView("pos", part))
        /\ mIndexBufferViews' = Append(mIndexBufferViews, BufferView("idx", part))
        /\ mNormalsBufferViews' = Append(mNormalsBufferViews, BufferView("nrm", part))
        /\ mTexCoordsBufferViews' = Append(mTexCoordsBufferViews, BufferView("tex", part))
  /\ partIdx' = partIdx + 1
  /\ UNCHANGED <<pc, scene, modelIdx, mBlasNamesAndRanges, mMaterialBuffer, mTlas, frameVars, updateVars, uiVars, sessionVars>>

\* Lines 91-93
EndModel ==
  /\ pc = "partitions"
  /\ partIdx > scene[modelIdx].mats
  /\ mBlasNamesAndRanges' =
       [mBlasNamesAndRanges EXCEPT ![Len(mBlasNamesAndRanges)][3] = Len(mGeometryInstances)]
  /\ modelIdx' = modelIdx + 1
  /\ pc' = "models"
  /\ UNCHANGED <<scene, partIdx, materialData, mBlas, mGeometryInstances,
                 mPositionsBufferViews, mIndexBufferViews, mNormalsBufferViews,
                 mTexCoordsBufferViews, mMaterialBuffer, mTlas, frameVars, updateVars, uiVars, sessionVars>>

\* Line 96: one GPU material per gathered material config, in the same order.
ConvertForGpuUsage(materials) == [i \in 1..Len(materials) |-> [part |-> materials[i].part]]

\* Mutant of CreateAndBuildTlas: the capacity is the number of bottom-level
\* structures the instances refer to.
CreateAndBuildTlasPerBlas(instances) ==
  [capacity |-> Cardinality({ instances[i].blas : i \in 1..Len(instances) }),
   built |-> Len(instances)]

\* Lines 116-120
CreateAndBuildTlas(instances) == [capacity |-> Len(instances), built |-> Len(instances)]

\* Lines 95-120
FinishIngestion ==
  /\ pc = "models"
  /\ modelIdx > Len(scene)
  /\ mMaterialBuffer' = ConvertForGpuUsage(materialData)
  /\ mTlas' = CreateAndBuildTlas(mGeometryInstances)
  /\ pc' = "ingested"
  /\ UNCHANGED <<scene, modelIdx, partIdx, materialData, mBlas, mGeometryInstances,
                 mPositionsBufferViews, mIndexBufferViews, mNormalsBufferViews,
                 mTexCoordsBufferViews, mBlasNamesAndRanges, frameVars, updateVars, uiVars, sessionVars>>

\* Lines 27-28, which initialize() executes before the loop of line 39:
\* { 0.8f, 1.0f, 0.0f }, in thousandths.
LightDirOfInitialize == <<800, 1000, 0>>

Init ==
  /\ scene \in Scenes
  /\ pc = "models"
  /\ modelIdx = 1
  /\ partIdx = 1
  /\ materialData = <<>>
  /\ mBlas = <<>>
  /\ mGeometryInstances = <<>>
  /\ mPositionsBufferViews = <<>>
  /\ mIndexBufferViews = <<>>
  /\ mNormalsBufferViews = <<>>
  /\ mTexCoordsBufferViews = <<>>
  /\ mBlasNamesAndRanges = <<>>
  /\ mMaterialBuffer = <<>>
  /\ mTlas = NoTlas
  /\ mOffscreenImageView = 0
  /\ mPipeline = NoPipeline
  /\ mDescriptorCache = {}
  /\ imageViewsCreated = 0
  /\ superseded = {}
  /\ destroyed = {}
  /\ frames = <<>>
  /\ updateUntilFrame = -1
  /\ lastKeyDownFrame = -1
  /\ tlasUpdates = {}
  /\ stopRequested = FALSE
  /\ shaderSources = 0
  /\ shaderReloads = 0
  /\ exception = "none"
  /\ errorLog = <<>>
  /\ imagesAvailable = 0
  /\ mLightDir = LightDirOfInitialize
  /\ cameraEnabled = TRUE
  /\ uiUserInteraction = <<>>
  /\ modeBeforeLastPress = <<>>
  /\ uiRendered = 0

Next ==
  \/ BeginModel
  \/ Partition
  \/ EndModel
  \/ FinishIngestion

Spec == Init /\ [][Next]_vars

\* ------------------------------------- initialize(): render target, pipeline

\* push_const_data: the members the initializer of lines 288-292 fills, in order.
PushConstData ==
  << [name |-> "mCameraTransform", type |-> "mat4"],
     [name |-> "mCameraHalfFovAngle", type |-> "float"],
     [name |-> "_padding0", type |-> "float"],
     [name |-> "_padding1", type |-> "float"],
     [name |-> "_padding2", type |-> "float"],
     [name |-> "mLightDir", type |-> "vec4"] >>

\* Bytes of a float.
SizeOfFloat == 4

\* sizeof of a member type: the glm types are arrays of floats.
SizeOfType(type) ==
  CASE type = "float" -> SizeOfFloat
    [] type = "vec3" -> 3 * SizeOfFloat
    [] type = "vec4" -> 4 * SizeOfFloat
    [] type = "mat4" -> 16 * SizeOfFloat

\* alignof of a member type: that of its float elements.
AlignOfType(type) == SizeOfFloat

AlignUp(n, a) == ((n + a - 1) \div a) * a

\* offsetof of the i-th member of a standard-layout struct.
RECURSIVE OffsetOfMember(_, _)
OffsetOfMember(struct, i) ==
  IF i = 1 THEN 0
  ELSE AlignUp(OffsetOfMember(struct, i - 1) + SizeOfType(struct[i - 1].type),
               AlignOfType(struct[i].type))

\* sizeof of a standard-layout struct whose members all align like a float.
SizeOf(struct) ==
  AlignUp(OffsetOfMember(struct, Len(struct)) + SizeOfType(struct[Len(struct)].type),
          SizeOfFloat)

\* Lines 133-137: the shader table, its groups in the order given.
ShaderTable ==
  << [group |-> "ray_generation", stage |-> "ray_generation",
      file |-> "shaders/ray_gen_shader.rgen"],
     [group |-> "triangles_hit_group", stage |-> "closest_hit",
      file |-> "shaders/closest_hit_shader.rchit"],
     [group |-> "miss", stage |-> "miss", file |-> "shaders/miss_shader.rmiss"] >>

\* Line 141
PushConstantBindingData ==
  [stages |-> {"ray_generation", "closest_hit"}, offset |-> 0, size |-> SizeOf(PushConstData)]

\* Lines 142-148
PipelineBindings(imageView) ==
  << Binding(0, 0, Resource("image_samplers", "mImageSamplers", 0)),
     Binding(0, 1, Resource("storage_buffer", "mMaterialBuffer", 0)),
     Binding(0, 2, Resource("uniform_texel_buffer_views", "mIndexBufferViews", 0)),
     Binding(0, 3, Resource("uniform_texel_buffer_views", "mTexCoordsBufferViews", 0)),
     Binding(0, 4, Resource("uniform_texel_buffer_views", "mNormalsBufferViews", 0)),
     Binding(1, 0, Resource("storage_image", "mOffscreenImageView", imageView)),
     Binding(2, 0, Resource("acceleration_structure", "mTlas", 0)) >>

\* Pipelines created so far: one with every render target, one with every reload.
PipelinesCreated == imageViewsCreated + shaderReloads

\* Lines 131-149: the pipeline, compiled from the shader files as they are, and
\* the render target its set-1 binding names.
CreateRayTracingPipeline(handle, sources, imageView) ==
  [handle |-> handle, sources |-> sources, renderTarget |-> imageView,
   shaderTable |-> ShaderTable, pushConstants |-> PushConstantBindingData,
   bindings |-> PipelineBindings(imageView)]

\* Lines 122-173: the offscreen image view, the pipeline and the updater.
CreateRenderTargetAndPipeline ==
  /\ pc = "ingested"
  /\ imageViewsCreated' = imageViewsCreated + 1
  /\ mOffscreenImageView' = imageViewsCreated + 1
  /\ mPipeline' = CreateRayTracingPipeline(PipelinesCreated + 1, shaderSources,
                                            imageViewsCreated + 1)
  /\ pc' = "idle"
  /\ UNCHANGED <<ingestVars, updateVars, uiVars, sessionVars, mDescriptorCache, superseded, destroyed, frames>>

\* ----------------------------------------------------------------- update()

\* mainWnd->current_frame(): the frames rendered before this one.
CurrentFrame == Len(frames)

\* Lines 205-208
UpdateUntilFrame(directionalKeyDown, until) ==
  IF directionalKeyDown THEN CurrentFrame + NumberOfFramesInFlight - 1 ELSE until

\* Lines 209-244: the branch is entered while current_frame <= updateUntilFrame;
\* every statement of its body is commented out, so no update of mTlas is issued.
TlasUpdateBranch(updates, until) == updates

\* Mutant of HostAfterUpdate: the escape key ends the session on the spot.
HostAfterUpdateExitAtOnce(escapePressed) == IF escapePressed THEN "torn_down" ELSE "render"

\* Lines 251-254, 266: stop() is a request; update() returns to the frame loop.
HostAfterUpdate(escapePressed) == "render"

\* Mutant of GeometryInstancesAfterUpdate: the statements of lines 225-230 are
\* executed, which give every other instance another transform.
GeometryInstancesMovedInUpdate(instances, entered) ==
  IF entered
  THEN [i \in 1..Len(instances) |->
          IF i % 2 = 1 THEN [instances[i] EXCEPT !.placement = 0] ELSE instances[i]]
  ELSE instances

\* Lines 209-244: mGeometryInstances when the branch was entered or not; the
\* statements that would change the transforms are commented out.
GeometryInstancesAfterUpdate(instances, entered) == instances

\* Lines 426 and 452: main() makes an imgui_manager one of the composition's
\* elements, so element_by_type finds it (lines 181, 256).
ImguiManagerPresent == TRUE

\* Mutant of ToggleInputMode: the UI takes the camera's new state.
ToggleInputModeBothAlike(enabled, interaction) ==
  IF enabled
  THEN [camera |-> FALSE, ui |-> IF ImguiManagerPresent THEN <<FALSE>> ELSE interaction]
  ELSE [camera |-> TRUE, ui |-> IF ImguiManagerPresent THEN <<TRUE>> ELSE interaction]

\* Lines 255-265: the camera's state and the UI's after a press of F1.
ToggleInputMode(enabled, interaction) ==
  IF enabled
  THEN [camera |-> FALSE, ui |-> IF ImguiManagerPresent THEN <<TRUE>> ELSE interaction]
  ELSE [camera |-> TRUE, ui |-> IF ImguiManagerPresent THEN <<FALSE>> ELSE interaction]

\* Lines 201-266, for the keys that change state here.
UpdateWith(directionalKeyDown, escapePressed, f1Pressed) ==
  /\ pc = "idle"
  /\ ~stopRequested
  /\ Len(frames) < MaxFrames
  /\ lastKeyDownFrame' = IF directionalKeyDown THEN CurrentFrame ELSE lastKeyDownFrame
  /\ updateUntilFrame' = UpdateUntilFrame(directionalKeyDown, updateUntilFrame)
  /\ tlasUpdates' = TlasUpdateBranch(tlasUpdates, updateUntilFrame')
  /\ mGeometryInstances' =
       GeometryInstancesAfterUpdate(mGeometryInstances, CurrentFrame <= updateUntilFrame')
  /\ stopRequested' = escapePressed
  /\ LET toggled == ToggleInputMode(cameraEnabled, uiUserInteraction)
     IN /\ cameraEnabled' = IF f1Pressed THEN toggled.camera ELSE cameraEnabled
        /\ uiUserInteraction' = IF f1Pressed THEN toggled.ui ELSE uiUserInteraction
        /\ modeBeforeLastPress' = IF f1Pressed THEN <<cameraEnabled, uiUserInteraction>>
                                  ELSE modeBeforeLastPress
  /\ pc' = HostAfterUpdate(escapePressed)
  /\ UNCHANGED <<scene, modelIdx, partIdx, materialData, mBlas, mPositionsBufferViews,
                 mIndexBufferViews, mNormalsBufferViews, mTexCoordsBufferViews,
                 mBlasNamesAndRanges, mMaterialBuffer, mTlas, frameVars, sessionVars,
                 mLightDir, uiRendered>>

\* update() with any of the keys down or not.
Update == \E directionalKeyDown \in BOOLEAN, escapePressed \in BOOLEAN, f1Pressed \in BOOLEAN :
            UpdateWith(directionalKeyDown, escapePressed, f1Pressed)

\* update() with a directional key down or not, no other key pressed.
UpdateDirectional == \E directionalKeyDown \in BOOLEAN :
                       UpdateWith(directionalKeyDown, FALSE, FALSE)

\* update() in a frame in which none of the keys is down.
UpdateNoKeyDown == UpdateWith(FALSE, FALSE, FALSE)

\* The composition tears the shared resources down after a stop request, once
\* every submitted frame has retired.
Teardown ==
  /\ pc = "idle"
  /\ stopRequested
  /\ \A f \in 1..Len(frames) : frames[f].state = "Retired"
  /\ pc' = "torn_down"
  /\ UNCHANGED <<ingestVars, frameVars, updateVars, uiVars, sessionVars>>

\* ----------------------------------------------------------------- render()

\* Mutant of RenderBindings: the texture-coordinate and the normal views are
\* passed in each other's place.
RenderBindingsNormalsFirst(imageView) ==
  << Binding(0, 0, Resource("image_samplers", "mImageSamplers", 0)),
     Binding(0, 1, Resource("storage_buffer", "mMaterialBuffer", 0)),
     Binding(0, 2, Resource("uniform_texel_buffer_views", "mIndexBufferViews", 0)),
     Binding(0, 3, Resource("uniform_texel_buffer_views", "mNormalsBufferViews", 0)),
     Binding(0, 4, Resource("uniform_texel_buffer_views", "mTexCoordsBufferViews", 0)),
     Binding(1, 0, Resource("storage_image", "mOffscreenImageView", imageView)),
     Binding(2, 0, Resource("acceleration_structure", "mTlas", 0)) >>

\* Lines 277-285: the bindings render() asks descriptor sets for.
RenderBindings(imageView) ==
  << Binding(0, 0, Resource("image_samplers", "mImageSamplers", 0)),
     Binding(0, 1, Resource("storage_buffer", "mMaterialBuffer", 0)),
     Binding(0, 2, Resource("uniform_texel_buffer_views", "mIndexBufferViews", 0)),
     Binding(0, 3, Resource("uniform_texel_buffer_views", "mTexCoordsBufferViews", 0)),
     Binding(0, 4, Resource("uniform_texel_buffer_views", "mNormalsBufferViews", 0)),
     Binding(1, 0, Resource("storage_image", "mOffscreenImageView", imageView)),
     Binding(2, 0, Resource("acceleration_structure", "mTlas", 0)) >>

\* One descriptor set per set number of the bindings, holding that set's bindings.
DescriptorSetsOf(bindings) ==
  { [set |-> n, bindings |-> SelectSeq(bindings, LAMBDA b : b.set = n)] :
      n \in { bindings[i].set : i \in 1..Len(bindings) } }

\* Line 277: sets the cache holds are reused, the others are created and kept.
GetOrCreateDescriptorSets(cache, bindings) ==
  [cache |-> cache \cup DescriptorSetsOf(bindings), sets |-> DescriptorSetsOf(bindings)]

\* Line 170: drops every cached set one of whose bindings names the handle.
RemoveSetsWithHandle(cache, handle) ==
  { s \in cache : \A i \in 1..Len(s.bindings) : s.bindings[i].resource.handle # handle }

\* Image-view handles the bindings of a descriptor set name.
HandlesOf(s) == { s.bindings[i].resource.handle : i \in 1..Len(s.bindings) } \ {0}

Cmd(name) == <<name>>

\* Lines 305-308 and 317-320
GlobalMemoryBarrier(srcStage, dstStage, srcAccess, dstAccess) ==
  <<"establish_global_memory_barrier", srcStage, dstStage, srcAccess, dstAccess>>

\* Mutant of RenderStatementAfter: the copy is recorded before the barrier that
\* makes the ray-tracing writes visible to it.
RenderStatementAfterCopyFirst(stmt) ==
  CASE stmt = "begin_recording" -> "bind_pipeline"
    [] stmt = "bind_pipeline" -> "bind_descriptors"
    [] stmt = "bind_descriptors" -> "push_constants"
    [] stmt = "push_constants" -> "trace_rays"
    [] stmt = "trace_rays" -> "copy_image_to_another"
    [] stmt = "copy_image_to_another" -> "barrier_to_transfer"
    [] stmt = "barrier_to_transfer" -> "barrier_to_color_attachment"
    [] stmt = "barrier_to_color_attachment" -> "end_recording"
    [] stmt = "end_recording" -> "submit"
    [] stmt = "submit" -> "handle_lifetime"
    [] stmt = "handle_lifetime" -> "idle"

\* Lines 275-331: the statement render() executes after stmt.
RenderStatementAfter(stmt) ==
  CASE stmt = "begin_recording" -> "bind_pipeline"
    [] stmt = "bind_pipeline" -> "bind_descriptors"
    [] stmt = "bind_descriptors" -> "push_constants"
    [] stmt = "push_constants" -> "trace_rays"
    [] stmt = "trace_rays" -> "barrier_to_transfer"
    [] stmt = "barrier_to_transfer" -> "copy_image_to_another"
    [] stmt = "copy_image_to_another" -> "barrier_to_color_attachment"
    [] stmt = "barrier_to_color_attachment" -> "end_recording"
    [] stmt = "end_recording" -> "submit"
    [] stmt = "submit" -> "handle_lifetime"
    [] stmt = "handle_lifetime" -> "idle"

\* Line 274
AllocCommandBuffer ==
  [usage |-> "eOneTimeSubmit", owner |-> "render", released |-> FALSE, submits |-> 0]

NewFrame ==
  [state |-> "Recording", cmds |-> <<>>, pipeline |-> NoPipeline, bindings |-> <<>>,
   descriptorSets |-> {}, pushConstants |-> [stages |-> {}, offset |-> 0, size |-> 0,
                                             data |-> <<>>],
   copySource |-> 0, semaphoresConsumed |-> 0, waitSemaphores |-> {},
   cmdbfr |-> AllocCommandBuffer]

Cur == Len(frames)

InFlight == { f \in 1..Len(frames) : frames[f].state = "Submitted" }

\* The window lets a frame start only while fewer than the configured number
\* of frames are submitted and not retired.
FrameSlotAvailable == Cardinality(InFlight) < NumberOfFramesInFlight

\* Lines 270-275
BeginRecording ==
  /\ pc = "render"
  /\ FrameSlotAvailable
  /\ frames' = Append(frames, [NewFrame EXCEPT !.cmds = <<Cmd("begin_recording")>>])
  /\ pc' = RenderStatementAfter("begin_recording")
  /\ UNCHANGED <<ingestVars, updateVars, uiVars, sessionVars, mOffscreenImageView, mPipeline, mDescriptorCache,
                 imageViewsCreated, superseded, destroyed>>

\* Line 276
BindPipeline ==
  /\ pc = "bind_pipeline"
  /\ frames' = [frames EXCEPT ![Cur].cmds = Append(@, Cmd("bind_pipeline")),
                              ![Cur].pipeline = mPipeline]
  /\ pc' = RenderStatementAfter("bind_pipeline")
  /\ UNCHANGED <<ingestVars, updateVars, uiVars, sessionVars, mOffscreenImageView, mPipeline, mDescriptorCache,
                 imageViewsCreated, superseded, destroyed>>

\* Lines 277-285
BindDescriptors ==
  /\ pc = "bind_descriptors"
  /\ LET bindings == RenderBindings(mOffscreenImageView)
         got == GetOrCreateDescriptorSets(mDescriptorCache, bindings)
     IN /\ mDescriptorCache' = got.cache
        /\ frames' = [frames EXCEPT ![Cur].cmds = Append(@, Cmd("bind_descriptors")),
                                    ![Cur].bindings = bindings,
                                    ![Cur].descriptorSets = got.sets]
  /\ pc' = RenderStatementAfter("bind_descriptors")
  /\ UNCHANGED <<ingestVars, updateVars, uiVars, sessionVars, mOffscreenImageView, mPipeline, imageViewsCreated,
                 superseded, destroyed>>

\* Line 401, in degrees.
mFieldOfViewForRayTracing == 45

\* Lines 288-292: the initializers of the block, in member order.
PushConstantsForThisDrawCall ==
  << "mQuakeCam.global_transformation_matrix()",
     <<"glm::radians", mFieldOfViewForRayTracing, "* 0.5f">>,
     0, 0, 0,
     <<mLightDir[1], mLightDir[2], mLightDir[3], 0>> >>

\* Mutant of VkPushConstants: the block is written for the ray generation stage only.
VkPushConstantsRaygenOnly(data) ==
  [stages |-> {"ray_generation"}, offset |-> 0, size |-> SizeOf(PushConstData),
   data |-> data]

\* Line 293: eRaygenKHR | eClosestHitKHR, 0, sizeof(pushConstantsForThisDrawCall)
VkPushConstants(data) ==
  [stages |-> {"ray_generation", "closest_hit"}, offset |-> 0,
   size |-> SizeOf(PushConstData), data |-> data]

\* Lines 287-293
PushConstants ==
  /\ pc = "push_constants"
  /\ frames' = [frames EXCEPT ![Cur].cmds = Append(@, Cmd("push_constants")),
                              ![Cur].pushConstants =
                                 VkPushConstants(PushConstantsForThisDrawCall)]
  /\ pc' = RenderStatementAfter("push_constants")
  /\ UNCHANGED <<ingestVars, updateVars, uiVars, sessionVars, mOffscreenImageView, mPipeline, mDescriptorCache,
                 imageViewsCreated, superseded, destroyed>>

\* Lines 296-302
TraceRays ==
  /\ pc = "trace_rays"
  /\ frames' = [frames EXCEPT ![Cur].cmds = Append(@, Cmd("trace_rays"))]
  /\ pc' = RenderStatementAfter("trace_rays")
  /\ UNCHANGED <<ingestVars, updateVars, uiVars, sessionVars, mOffscreenImageView, mPipeline, mDescriptorCache,
                 imageViewsCreated, superseded, destroyed>>

\* Lines 305-308
BarrierToTransfer ==
  /\ pc = "barrier_to_transfer"
  /\ frames' = [frames EXCEPT ![Cur].cmds =
       Append(@, GlobalMemoryBarrier("ray_tracing_shaders", "transfer",
                                     "shader_buffers_and_images_write_access",
                                     "transfer_read_access"))]
  /\ pc' = RenderStatementAfter("barrier_to_transfer")
  /\ UNCHANGED <<ingestVars, updateVars, uiVars, sessionVars, mOffscreenImageView, mPipeline, mDescriptorCache,
                 imageViewsCreated, superseded, destroyed>>

\* Lines 310-314
CopyImageToAnother ==
  /\ pc = "copy_image_to_another"
  /\ frames' = [frames EXCEPT ![Cur].cmds = Append(@, Cmd("copy_image_to_another")),
                              ![Cur].copySource = mOffscreenImageView]
  /\ pc' = RenderStatementAfter("copy_image_to_another")
  /\ UNCHANGED <<ingestVars, updateVars, uiVars, sessionVars, mOffscreenImageView, mPipeline, mDescriptorCache,
                 imageViewsCreated, superseded, destroyed>>

\* Lines 317-320
BarrierToColorAttachment ==
  /\ pc = "barrier_to_color_attachment"
  /\ frames' = [frames EXCEPT ![Cur].cmds =
       Append(@, GlobalMemoryBarrier("transfer", "color_attachment_output",
                                     "transfer_write_access",
                                     "color_attachment_write_access"))]
  /\ pc' = RenderStatementAfter("barrier_to_color_attachment")
  /\ UNCHANGED <<ingestVars, updateVars, uiVars, sessionVars, mOffscreenImageView, mPipeline, mDescriptorCache,
                 imageViewsCreated, superseded, destroyed>>

\* Line 322
EndRecording ==
  /\ pc = "end_recording"
  /\ frames' = [frames EXCEPT ![Cur].cmds = Append(@, Cmd("end_recording"))]
  /\ pc' = RenderStatementAfter("end_recording")
  /\ UNCHANGED <<ingestVars, updateVars, uiVars, sessionVars, mOffscreenImageView, mPipeline, mDescriptorCache,
                 imageViewsCreated, superseded, destroyed>>

\* Line 326: the image-available semaphore of the current frame, named by the
\* frame's number.
ConsumeCurrentImageAvailableSemaphore == Cur

\* Mutant of QueueSubmit: the submission waits on nothing.
QueueSubmitWithoutWait(imageAvailableSemaphore) == {}

\* Line 329: the semaphores the submission waits on.
QueueSubmit(imageAvailableSemaphore) == {imageAvailableSemaphore}

\* Lines 326-329
Submit ==
  /\ pc = "submit"
  /\ frames' = [frames EXCEPT ![Cur].cmds = Append(@, Cmd("submit")),
                              ![Cur].state = "Submitted",
                              ![Cur].cmdbfr.submits = @ + 1,
                              ![Cur].semaphoresConsumed = @ + 1,
                              ![Cur].waitSemaphores =
                                 QueueSubmit(ConsumeCurrentImageAvailableSemaphore)]
  /\ pc' = RenderStatementAfter("submit")
  /\ UNCHANGED <<ingestVars, updateVars, uiVars, sessionVars, mOffscreenImageView, mPipeline, mDescriptorCache,
                 imageViewsCreated, superseded, destroyed>>

\* Mutant of HandleLifetime: the command buffer is not handed to the window.
HandleLifetimeSkipped(cmdbfr) == cmdbfr

\* Line 330: the window's lifetime handler takes the command buffer over.
HandleLifetime(cmdbfr) == [cmdbfr EXCEPT !.owner = "window"]

\* Line 331: leaving render() destroys the command buffer if render() still owns it.
LeaveScope(cmdbfr) ==
  IF cmdbfr.owner = "render" THEN [cmdbfr EXCEPT !.released = TRUE] ELSE cmdbfr

\* Lines 330-331
HandleLifetimeAndReturn ==
  /\ pc = "handle_lifetime"
  /\ frames' = [frames EXCEPT ![Cur].cmdbfr = LeaveScope(HandleLifetime(@))]
  /\ pc' = RenderStatementAfter("handle_lifetime")
  /\ UNCHANGED <<ingestVars, updateVars, uiVars, sessionVars, mOffscreenImageView, mPipeline, mDescriptorCache,
                 imageViewsCreated, superseded, destroyed>>

\* ---------------------------------------------------------- the UI callback

\* The length 1.0 in the unit of the components, thousandths.
UnitLength == 1000

\* glm::dot(v, v)
Dot(v) == v[1] * v[1] + v[2] * v[2] + v[3] * v[3]

\* The square root, rounded down.
ISqrt(n) == CHOOSE r \in 0..(2 * UnitLength) : r * r <= n /\ n < (r + 1) * (r + 1)

\* Line 191: glm::normalize, v / sqrt(dot(v, v)), its components rounded down.
Normalize(v) == [i \in 1..3 |-> (v[i] * UnitLength) \div ISqrt(Dot(v))]

\* Line 190: one component dragged to a value within [-1.0, 1.0], or none.
DragFloat3(v, component, value) ==
  IF component = 0 THEN v ELSE [v EXCEPT ![component] = value]

\* The values a component is dragged to: 0.0 and 1.0.
DragValues == {0, UnitLength}

\* Lines 183-197: the callback the UI manager runs in its render(), which comes
\* after render() of line 268 in every frame (line 316); the drags tried leave
\* a vector that has a direction, and the field of view is not dragged.
UiCallback ==
  /\ pc = "idle"
  /\ ImguiManagerPresent
  /\ uiRendered < Len(frames)
  /\ \E component \in 0..3, value \in DragValues :
       LET dragged == DragFloat3(mLightDir, component, value)
       IN /\ Dot(dragged) > 0
          /\ mLightDir' = Normalize(dragged)
  /\ uiRendered' = Len(frames)
  /\ UNCHANGED <<pc, ingestVars, frameVars, updateVars, sessionVars, cameraEnabled,
                 uiUserInteraction, modeBeforeLastPress>>

\* update() of the frame after the one the UI manager has rendered.
UpdateAfterUi ==
  /\ uiRendered = Len(frames)
  /\ UpdateNoKeyDown

\* ------------------------------------------------------ failures and main()

\* What the calls of render() can throw: the framework's four exception types,
\* the Vulkan binding's error and the allocator's.
ExceptionTypes ==
  {"gvk::logic_error", "gvk::runtime_error", "avk::logic_error", "avk::runtime_error",
   "vk::SystemError", "std::bad_alloc"}

\* The statements of render() the failures are about: the descriptor sets
\* (line 277), the backbuffer (line 312), the semaphore and the submission
\* (lines 326-329).
ThrowingStatements == {"bind_descriptors", "copy_image_to_another", "submit"}

\* A call of render() throws: render() is left, its command buffer with it
\* (line 274: render() owns it until line 330), and nothing in render() or in
\* the class catches.
RenderThrows ==
  /\ pc \in ThrowingStatements
  /\ \E e \in ExceptionTypes : exception' = e
  /\ frames' = [frames EXCEPT ![Cur].state = "Abandoned",
                              ![Cur].cmdbfr = LeaveScope(@)]
  /\ pc' = "unwinding"
  /\ UNCHANGED <<ingestVars, updateVars, uiVars, shaderSources, shaderReloads, errorLog,
                 imagesAvailable, mOffscreenImageView, mPipeline, mDescriptorCache,
                 imageViewsCreated, superseded, destroyed>>

\* Lines 456-459: the handlers of main().
CaughtInMain ==
  {"gvk::logic_error", "gvk::runtime_error", "avk::logic_error", "avk::runtime_error"}

\* Lines 407, 456-460: a handler logs and main() returns; an exception none of
\* them matches leaves main() and the program is terminated.
MainHandles ==
  /\ pc = "unwinding"
  /\ IF exception \in CaughtInMain
     THEN /\ errorLog' = Append(errorLog, <<"Caught", exception, "in main():">>)
          /\ pc' = "exited"
     ELSE /\ errorLog' = errorLog
          /\ pc' = "terminated"
  /\ UNCHANGED <<ingestVars, frameVars, updateVars, uiVars, shaderSources, shaderReloads,
                 exception, imagesAvailable>>

\* ------------------------------------------------------- GPU and the window

\* The semaphores the swapchain has signalled: the backbuffer images become
\* available in the order of their frames.
SignalledSemaphores == 1..imagesAvailable

\* The backbuffer image of the next frame becomes available.
ImageBecomesAvailable ==
  /\ imagesAvailable < Len(frames)
  /\ imagesAvailable' = imagesAvailable + 1
  /\ UNCHANGED <<pc, ingestVars, frameVars, updateVars, uiVars, shaderSources, shaderReloads,
                 exception, errorLog>>

\* The queue executes and completes the oldest submitted frame, once the
\* semaphores its submission waits on are signalled.
Retire ==
  /\ InFlight # {}
  /\ LET f == CHOOSE g \in InFlight : \A h \in InFlight : g <= h
     IN /\ frames[f].waitSemaphores \subseteq SignalledSemaphores
        /\ frames' = [frames EXCEPT ![f].state = "Retired"]
  /\ UNCHANGED <<pc, ingestVars, updateVars, uiVars, sessionVars, mOffscreenImageView, mPipeline, mDescriptorCache,
                 imageViewsCreated, superseded, destroyed>>

\* Command buffers the window's lifetime handler may let go of.
Releasable ==
  { f \in 1..Len(frames) : /\ frames[f].cmdbfr.owner = "window"
                           /\ ~frames[f].cmdbfr.released
                           /\ frames[f].state = "Retired" }

\* The window releases the command buffers it was handed whose frames retired.
ReleaseCommandBuffers ==
  /\ pc = "idle"
  /\ Releasable # {}
  /\ frames' = [f \in 1..Len(frames) |->
                  IF f \in Releasable THEN [frames[f] EXCEPT !.cmdbfr.released = TRUE]
                  ELSE frames[f]]
  /\ UNCHANGED <<pc, ingestVars, updateVars, uiVars, sessionVars, mOffscreenImageView, mPipeline, mDescriptorCache,
                 imageViewsCreated, superseded, destroyed>>

\* ------------------------------------------------------------------ updater

\* Mutant of UpdaterUpdate: the old image view is dropped at once instead of
\* being left to the updater.
ReplaceInPlace(old, kept, gone) == [superseded |-> kept, destroyed |-> gone \cup {old}]

\* Lines 166-167: the replaced image view is handed to the updater, alive.
UpdaterUpdate(old, kept, gone) == [superseded |-> kept \cup {old}, destroyed |-> gone]

\* What an event's updatees are recreated from, with the shader files as they
\* are when the event is handled.
UpdaterState(sources) ==
  [view |-> mOffscreenImageView, views |-> imageViewsCreated, pipeline |-> mPipeline,
   sources |-> sources, superseded |-> superseded, destroyed |-> destroyed]

\* Mutant of UpdateOne: the pipeline is recreated without its descriptor bindings.
UpdateOneWithoutBindings(st, updatee) ==
  CASE updatee = "mOffscreenImageView" ->
         LET u == UpdaterUpdate(st.view, st.superseded, st.destroyed)
         IN [st EXCEPT !.view = st.views + 1, !.views = st.views + 1,
                       !.superseded = u.superseded, !.destroyed = u.destroyed]
    [] updatee = "mPipeline" ->
         [st EXCEPT !.pipeline =
            [CreateRayTracingPipeline(PipelinesCreated + 1, st.sources, st.view)
               EXCEPT !.bindings = <<>>]]

\* .update(...) of one updatee: it is recreated from what the updatees before
\* it left, and it replaces the object the member named.
UpdateOne(st, updatee) ==
  CASE updatee = "mOffscreenImageView" ->
         LET u == UpdaterUpdate(st.view, st.superseded, st.destroyed)
         IN [st EXCEPT !.view = st.views + 1, !.views = st.views + 1,
                       !.superseded = u.superseded, !.destroyed = u.destroyed]
    [] updatee = "mPipeline" ->
         [st EXCEPT !.pipeline =
            CreateRayTracingPipeline(PipelinesCreated + 1, st.sources, st.view)]

\* .update(a, b, ...): the updatees are recreated in the order they are listed.
RECURSIVE UpdateAll(_, _)
UpdateAll(st, updatees) ==
  IF updatees = <<>> THEN st
  ELSE UpdateAll(UpdateOne(st, Head(updatees)), Tail(updatees))

\* The members take the recreated objects.
Updated(st) ==
  /\ mOffscreenImageView' = st.view
  /\ imageViewsCreated' = st.views
  /\ mPipeline' = st.pipeline
  /\ superseded' = st.superseded
  /\ destroyed' = st.destroyed

\* Mutant of ShaderFilesChangedUpdatees: a reload recreates the render target too.
ShaderFilesChangedAlsoRenderTarget == <<"mOffscreenImageView", "mPipeline">>

\* Line 161
ShaderFilesChangedUpdatees == <<"mPipeline">>

\* Lines 160-161: shader_files_changed_event: a shader file was written, with
\* other contents or with the same.
ShaderFilesChanged ==
  /\ pc = "idle"
  /\ shaderReloads < MaxShaderReloads
  /\ \E changed \in BOOLEAN :
       /\ shaderSources' = IF changed THEN shaderSources + 1 ELSE shaderSources
       /\ shaderReloads' = shaderReloads + 1
       /\ Updated(UpdateAll(UpdaterState(shaderSources'), ShaderFilesChangedUpdatees))
  /\ UNCHANGED <<pc, ingestVars, updateVars, uiVars, exception, errorLog, imagesAvailable,
                 mDescriptorCache, frames>>

\* Mutant of SwapchainResizedUpdatees: the pipeline is recreated first.
SwapchainResizedPipelineFirst == <<"mPipeline", "mOffscreenImageView">>

\* Line 167
SwapchainResizedUpdatees == <<"mOffscreenImageView", "mPipeline">>

\* Lines 164-167: swapchain_resized_event: a new render target, then the pipeline.
SwapchainResized ==
  /\ pc = "idle"
  /\ imageViewsCreated < MaxResizes + 1
  /\ Updated(UpdateAll(UpdaterState(shaderSources), SwapchainResizedUpdatees))
  /\ UNCHANGED <<pc, ingestVars, updateVars, uiVars, sessionVars, mDescriptorCache, frames>>

\* Frames that were recorded against the image view.
FramesReferencing(handle) ==
  { f \in 1..Len(frames) :
      \/ frames[f].copySource = handle
      \/ \E s \in frames[f].descriptorSets : handle \in HandlesOf(s) }

\* The updater destroys a replaced resource only when every frame that
\* references it has completed.
MayDestroy(handle) == \A f \in FramesReferencing(handle) : frames[f].state = "Retired"

\* Mutant of OnDestroyingImageView: no cleanup of the descriptor cache.
OnDestroyingImageViewNoCleanup(cache, handle) == cache

\* Lines 169-171
OnDestroyingImageView(cache, handle) == RemoveSetsWithHandle(cache, handle)

\* Lines 168-171: destroying_image_view_event, then the image view is destroyed.
DestroyImageView ==
  /\ pc = "idle"
  /\ \E h \in superseded :
       /\ MayDestroy(h)
       /\ mDescriptorCache' = OnDestroyingImageView(mDescriptorCache, h)
       /\ superseded' = superseded \ {h}
       /\ destroyed' = destroyed \cup {h}
  /\ UNCHANGED <<pc, ingestVars, updateVars, uiVars, sessionVars, mOffscreenImageView, mPipeline, imageViewsCreated, frames>>

\* The scenario of the specification: A with 3 materials placed twice, B with 1
\* material placed once.
ExampleScene == <<[mats |-> 3, insts |-> 2], [mats |-> 1, insts |-> 1]>>

RenderInit == Init /\ scene = ExampleScene

\* render(), statement by statement.
RenderStep ==
  \/ BeginRecording
  \/ BindPipeline
  \/ BindDescriptors
  \/ PushConstants
  \/ TraceRays
  \/ BarrierToTransfer
  \/ CopyImageToAnother
  \/ BarrierToColorAttachment
  \/ EndRecording
  \/ Submit
  \/ HandleLifetimeAndReturn

RenderNext ==
  \/ Next
  \/ CreateRenderTargetAndPipeline
  \/ UpdateNoKeyDown
  \/ RenderStep
  \/ ImageBecomesAvailable
  \/ Retire
  \/ ReleaseCommandBuffers
  \/ SwapchainResized
  \/ DestroyImageView

\* initialize() on the example scene, then the frame loop with swapchain
\* resizes and no key down.
RenderSpec == RenderInit /\ [][RenderNext]_vars

InputNext ==
  \/ Next
  \/ CreateRenderTargetAndPipeline
  \/ Update
  \/ Teardown
  \/ RenderStep
  \/ ImageBecomesAvailable
  \/ Retire
  \/ ReleaseCommandBuffers

ReloadNext ==
  \/ Next
  \/ CreateRenderTargetAndPipeline
  \/ UpdateNoKeyDown
  \/ RenderStep
  \/ ImageBecomesAvailable
  \/ Retire
  \/ ReleaseCommandBuffers
  \/ ShaderFilesChanged

\* initialize() on the example scene, then the frame loop with shader files
\* written between frames.
ReloadSpec == RenderInit /\ [][ReloadNext]_vars

FailureNext ==
  \/ Next
  \/ CreateRenderTargetAndPipeline
  \/ UpdateNoKeyDown
  \/ RenderStep
  \/ RenderThrows
  \/ MainHandles
  \/ ImageBecomesAvailable
  \/ Retire
  \/ ReleaseCommandBuffers

\* initialize() on the example scene, then the frame loop with calls of
\* render() that fail.
FailureSpec == RenderInit /\ [][FailureNext]_vars

UiNext ==
  \/ Next
  \/ CreateRenderTargetAndPipeline
  \/ UpdateAfterUi
  \/ RenderStep
  \/ UiCallback
  \/ ImageBecomesAvailable
  \/ Retire
  \/ ReleaseCommandBuffers

\* initialize() on the example scene, then the frame loop with the UI
\* manager's callback after every render().
UiSpec == RenderInit /\ [][UiNext]_vars

HostNext ==
  \/ Next
  \/ CreateRenderTargetAndPipeline
  \/ UpdateDirectional
  \/ RenderStep
  \/ SwapchainResized
  \/ DestroyImageView
  \/ ShaderFilesChanged

\* initialize() on the example scene, then what the host does in the frames
\* it can record before the queue has completed one: update() with the
\* directional keys, render(), swapchain resizes and shader-file events.
HostSpec == RenderInit /\ [][HostNext]_vars

\* initialize() on the example scene, then the frame loop with the keys.
InputSpec == RenderInit /\ [][InputNext]_vars

\* ------------------------------------------------- properties of ingestion

\* What the scene says, independently of the loops above.
RECURSIVE PartitionsBefore(_)
PartitionsBefore(m) == IF m <= 1 THEN 0 ELSE PartitionsBefore(m - 1) + scene[m - 1].mats

RECURSIVE InstancesBefore(_)
InstancesBefore(m) ==
  IF m <= 1 THEN 0
  ELSE InstancesBefore(m - 1) + scene[m - 1].mats * scene[m - 1].insts

\* 0-based creation-order number of partition <<model, material>>.
PartitionNumber(part) == PartitionsBefore(part[1]) + part[2] - 1

TotalPartitions == PartitionsBefore(Len(scene) + 1)

TotalInstances == InstancesBefore(Len(scene) + 1)

\* Partitions whose loop iteration has completed.
PartitionsProcessed == PartitionsBefore(modelIdx) + (IF pc = "partitions" THEN partIdx - 1 ELSE 0)

Ingested == pc = "ingested"

C2_CustomIndexWithinRecordedRange ==
  Ingested =>
    \A e \in 1..Len(mBlasNamesAndRanges) :
      \A k \in 1..Len(mGeometryInstances) :
        mGeometryInstances[k].blas.part[1] = mBlasNamesAndRanges[e][1] =>
          /\ mBlasNamesAndRanges[e][2] <= mGeometryInstances[k].customIndex
          /\ mGeometryInstances[k].customIndex < mBlasNamesAndRanges[e][3]

\* C3: after ingestion the number of geometry instances is the sum over the
\* models of partitions x placements, and the top-level structure is created
\* with exactly that capacity and built over exactly that many instances.
C3_InstanceCountAndTlasCapacity ==
  Ingested =>
    /\ Len(mGeometryInstances) = TotalInstances
    /\ mTlas.capacity = TotalInstances
    /\ mTlas.built = TotalInstances
    /\ Len(mBlas) = TotalPartitions

\* The scenario of the specification: A with 3 materials placed twice, B with 1
\* material placed once.
C3_Witness ==
  /\ Ingested
  /\ scene = ExampleScene
  /\ Len(mBlas) = 4
  /\ Len(mGeometryInstances) = 7
  /\ mTlas.capacity = 7

\* C4: at the end of every partition iteration, and after ingestion, the
\* material list, mBlas and the four buffer-view arrays have the length of the
\* number of partitions processed, entry i of each was produced from the i-th
\* partition, and the material buffer has one entry per partition, in order.
C4_ParallelArraysAligned ==
  /\ Len(materialData) = PartitionsProcessed
  /\ Len(mBlas) = PartitionsProcessed
  /\ Len(mPositionsBufferViews) = PartitionsProcessed
  /\ Len(mIndexBufferViews) = PartitionsProcessed
  /\ Len(mNormalsBufferViews) = PartitionsProcessed
  /\ Len(mTexCoordsBufferViews) = PartitionsProcessed
  /\ \A i \in 1..PartitionsProcessed :
       /\ PartitionNumber(materialData[i].part) = i - 1
       /\ mBlas[i].part = materialData[i].part
       /\ mPositionsBufferViews[i] = BufferView("pos", materialData[i].part)
       /\ mIndexBufferViews[i] = BufferView("idx", materialData[i].part)
       /\ mNormalsBufferViews[i] = BufferView("nrm", materialData[i].part)
       /\ mTexCoordsBufferViews[i] = BufferView("tex", materialData[i].part)
  /\ Ingested =>
       /\ Len(mMaterialBuffer) = TotalPartitions
       /\ \A i \in 1..TotalPartitions : PartitionNumber(mMaterialBuffer[i].part) = i - 1

C4_Witness ==
  /\ Ingested
  /\ Len(scene) = 2
  /\ Len(mMaterialBuffer) >= 3
  /\ mMaterialBuffer[Len(mMaterialBuffer)].part[1] = 2

\* C5: after ingestion every geometry instance's custom index is a valid index
\* into the index, texture-coordinate and normal buffer-view arrays and the
\* material buffer, and the entry there was built from the partition of the
\* bottom-level structure the instance refers to.
C5_CustomIndexAddressesOwnPartition ==
  Ingested =>
    \A k \in 1..Len(mGeometryInstances) :
      LET c == mGeometryInstances[k].customIndex
          part == mGeometryInstances[k].blas.part
      IN /\ 0 <= c
         /\ c < Len(mIndexBufferViews)
         /\ c < Len(mTexCoordsBufferViews)
         /\ c < Len(mNormalsBufferViews)
         /\ c < Len(mMaterialBuffer)
         /\ mIndexBufferViews[c + 1].part = part
         /\ mTexCoordsBufferViews[c + 1].part = part
         /\ mNormalsBufferViews[c + 1].part = part
         /\ mMaterialBuffer[c + 1].part = part
         /\ mBlas[c + 1] = mGeometryInstances[k].blas

C5_Witness ==
  /\ Ingested
  /\ Len(mGeometryInstances) >= 3
  /\ \E k \in 1..Len(mGeometryInstances) :
       /\ mGeometryInstances[k].customIndex = Len(mTexCoordsBufferViews) - 1
       /\ mGeometryInstances[k].customIndex >= 2

\* ------------------------------------------------ properties of the frames

\* The order the claim C6 gives for one frame.
FrameCommandOrder ==
  << <<"begin_recording">>,
     <<"bind_pipeline">>,
     <<"bind_descriptors">>,
     <<"push_constants">>,
     <<"trace_rays">>,
     <<"establish_global_memory_barrier", "ray_tracing_shaders", "transfer",
       "shader_buffers_and_images_write_access", "transfer_read_access">>,
     <<"copy_image_to_another">>,
     <<"establish_global_memory_barrier", "transfer", "color_attachment_output",
       "transfer_write_access", "color_attachment_write_access">>,
     <<"end_recording">>,
     <<"submit">> >>

\* C6: in every frame the commands are recorded in the order begin, bind
\* pipeline, bind descriptor sets, push constants, trace rays, barrier (ray
\* tracing write -> transfer read), copy, barrier (transfer write -> color
\* attachment write), end, submit: what a frame has recorded so far is a prefix
\* of that order, and a submitted frame has recorded all of it.
C6_CommandOrderOfEveryFrame ==
  \A f \in 1..Len(frames) :
    /\ Len(frames[f].cmds) <= Len(FrameCommandOrder)
    /\ frames[f].cmds = SubSeq(FrameCommandOrder, 1, Len(frames[f].cmds))
    /\ frames[f].state # "Recording" <=> frames[f].cmds = FrameCommandOrder

C6_Witness ==
  /\ Len(frames) >= 2
  /\ frames[1].state = "Retired"
  /\ frames[2].state = "Submitted"
  /\ frames[2].cmds[7] = <<"copy_image_to_another">>

\* Image views a frame was recorded against.
TargetsOf(f) ==
  {frames[f].copySource} \cup UNION { HandlesOf(s) : s \in frames[f].descriptorSets }

\* C7: a render target replaced on a swapchain resize is not destroyed while a
\* frame recorded against it has not retired, with up to 3 frames in flight;
\* every frame uses one render target, the one its pipeline was bound to.
C7_SupersededTargetOutlivesItsFrames ==
  /\ Cardinality(InFlight) <= NumberOfFramesInFlight
  /\ \A f \in 1..Len(frames) :
       /\ frames[f].state # "Retired" => (TargetsOf(f) \cap destroyed) = {}
       /\ frames[f].state # "Recording" =>
            TargetsOf(f) = {frames[f].pipeline.renderTarget}

C7_Witness ==
  /\ Cardinality(InFlight) = NumberOfFramesInFlight
  /\ \A f \in InFlight : frames[f].copySource \in superseded
  /\ mOffscreenImageView \notin superseded

\* C8: no cached descriptor set names a destroyed image view; the sets a frame
\* binds name only the render target of the pipeline it binds; and once no
\* frame is in flight and every replaced image view is destroyed, the cache
\* holds at most the three sets of the bindings, naming only the current render
\* target.
C8_NoStaleDescriptorSets ==
  /\ \A s \in mDescriptorCache : (HandlesOf(s) \cap destroyed) = {}
  /\ \A f \in 1..Len(frames) :
       \A s \in frames[f].descriptorSets :
         HandlesOf(s) \subseteq {frames[f].pipeline.renderTarget}
  /\ (pc = "idle" /\ InFlight = {} /\ superseded = {}) =>
       /\ \A s \in mDescriptorCache : HandlesOf(s) \subseteq {mOffscreenImageView}
       /\ Cardinality(mDescriptorCache) <= 3

\* Two rebuilds in succession, all replaced views destroyed, frames rendered
\* before and after.
C8_Witness ==
  /\ pc = "idle"
  /\ InFlight = {}
  /\ superseded = {}
  /\ destroyed = {1, 2}
  /\ Len(frames) >= 2
  /\ frames[1].copySource = 1
  /\ frames[Len(frames)].copySource = 3
  /\ \A f \in 1..Len(frames) : frames[f].copySource # 2
  /\ Cardinality(mDescriptorCache) = 3

\* C10: every frame's command buffer is a one-time-submit buffer of its own,
\* submitted at most once, in the window's hands only after its submission (and
\* in them once render() has returned), and released only after its frame has
\* retired.
C10_CommandBufferLifetime ==
  \A f \in 1..Len(frames) :
    /\ frames[f].cmdbfr.usage = "eOneTimeSubmit"
    /\ frames[f].cmdbfr.submits = (IF frames[f].state = "Recording" THEN 0 ELSE 1)
    /\ frames[f].cmdbfr.owner = "window" => frames[f].state # "Recording"
    /\ (f < Cur \/ pc = "idle") => frames[f].cmdbfr.owner = "window"
    /\ frames[f].cmdbfr.released => frames[f].state = "Retired"

C10_Witness ==
  /\ \E f \in 1..Len(frames) : frames[f].cmdbfr.released
  /\ \E f \in 1..Len(frames) :
       /\ frames[f].state = "Submitted"
       /\ frames[f].cmdbfr.owner = "window"
       /\ ~frames[f].cmdbfr.released

\* A frame only moves Recording -> Submitted -> Retired, and no frame is dropped.
FrameStep ==
  /\ Len(frames') >= Len(frames)
  /\ \A f \in 1..Len(frames) :
       \/ frames'[f].state = frames[f].state
       \/ frames[f].state = "Recording" /\ frames'[f].state = "Submitted"
       \/ frames[f].state = "Submitted" /\ frames'[f].state = "Retired"
  /\ \A f \in (Len(frames) + 1)..Len(frames') : frames'[f].state = "Recording"

\* C11: with 3 concurrent frames every frame goes Recording -> Submitted ->
\* Retired, at most 3 frames are submitted and not retired, and a frame's slot
\* is taken again (3 frames later) only after the frame has retired.
C11_BoundedFramesInFlight ==
  /\ [](/\ Cardinality(InFlight) <= 3
        /\ \A f \in 1..Len(frames) :
             /\ frames[f].state \in {"Recording", "Submitted", "Retired"}
             /\ f + 3 <= Len(frames) => frames[f].state = "Retired")
  /\ [][FrameStep]_vars

\* Frame 2 is recorded and submitted while frame 1 has not retired, and three
\* frames are in flight.
C11_Witness ==
  /\ Cardinality(InFlight) = 3
  /\ frames[1].state = "Submitted"
  /\ frames[2].state = "Submitted"

\* ------------------------------------------------- properties of update()

\* The frame (0-based) update() ran for last, -1 before the first.
LastUpdatedFrame == IF pc = "render" THEN Len(frames) ELSE Len(frames) - 1

\* C12: an update of the top-level structure is issued in the frame update()
\* has just run for exactly when a directional key was down in that frame or in
\* one of the 2 frames before it (3 frames in flight), never for a later frame,
\* and the structure's instance count stays what it was built with.
C12_TlasUpdatedForNFramesAfterKey ==
  LastUpdatedFrame >= 0 =>
    /\ (LastUpdatedFrame \in tlasUpdates)
         <=> (lastKeyDownFrame >= 0 /\ LastUpdatedFrame <= lastKeyDownFrame + 3 - 1)
    /\ \A g \in tlasUpdates : g <= LastUpdatedFrame
    /\ mTlas.built = Len(mGeometryInstances)

\* C15: the shared resources are torn down only after a stop request and only
\* when every frame is retired, and after the request a submitted frame still
\* only ever becomes retired.
C15_TeardownAfterFramesRetired ==
  /\ [](pc = "torn_down" =>
          /\ stopRequested
          /\ \A f \in 1..Len(frames) : frames[f].state = "Retired")
  /\ [][stopRequested => FrameStep]_vars

\* The stop was requested with two frames of earlier updates still in flight.
C15_Witness ==
  /\ stopRequested
  /\ pc = "idle"
  /\ Cardinality(InFlight) >= 2
  /\ frames[Len(frames)].state = "Submitted"

\* ------------------------------------------------ properties of the updater

\* C13: a shader-file event leaves the buffer-view arrays, the material buffer,
\* the bottom-level structures, the geometry instances, the top-level structure
\* and the render target the objects they were, with their contents, and
\* replaces the pipeline, which still names that render target.
C13_ShaderReloadRebuildsOnlyPipeline ==
  [][shaderReloads' # shaderReloads =>
       /\ UNCHANGED <<ingestVars, mOffscreenImageView, imageViewsCreated, superseded,
                      destroyed>>
       /\ mPipeline'.handle # mPipeline.handle
       /\ mPipeline'.renderTarget = mOffscreenImageView]_vars

\* A reload of changed shader files happened after a frame was rendered.
C13_Witness ==
  /\ shaderReloads >= 1
  /\ mPipeline.sources >= 1
  /\ mPipeline.handle >= 2
  /\ mOffscreenImageView = 1
  /\ Len(frames) >= 1

\* What a pipeline does, whichever object it is.
PipelineConfiguration(p) ==
  [sources |-> p.sources, shaderTable |-> p.shaderTable,
   pushConstants |-> p.pushConstants, bindings |-> p.bindings]

LayoutOf(bindings) ==
  [i \in 1..Len(bindings) |->
     <<bindings[i].set, bindings[i].binding, bindings[i].resource.kind,
       bindings[i].resource.name>>]

\* The layout the shaders are written against.
FixedLayout ==
  << <<0, 0, "image_samplers", "mImageSamplers">>,
     <<0, 1, "storage_buffer", "mMaterialBuffer">>,
     <<0, 2, "uniform_texel_buffer_views", "mIndexBufferViews">>,
     <<0, 3, "uniform_texel_buffer_views", "mTexCoordsBufferViews">>,
     <<0, 4, "uniform_texel_buffer_views", "mNormalsBufferViews">>,
     <<1, 0, "storage_image", "mOffscreenImageView">>,
     <<2, 0, "acceleration_structure", "mTlas">> >>

\* Frames whose render() has asked for its descriptor sets.
FramesWithDescriptors == { f \in 1..Len(frames) : frames[f].bindings # <<>> }

\* The image view a binding list's render-target binding names.
RenderTargetOf(bindings) ==
  LET i == CHOOSE j \in 1..Len(bindings) : bindings[j].resource.kind = "storage_image"
  IN bindings[i].resource.handle

\* C16: the bindings every render() asks descriptor sets for are, as a list of
\* (set, binding, resource kind), those the pipeline it bound was created with,
\* and both are the fixed layout; the render-target binding names the
\* mOffscreenImageView of the time of the call, which the frame being recorded
\* still has and which the frame's copy reads.
C16_RenderBindingsMatchPipelineLayout ==
  \A f \in FramesWithDescriptors :
    /\ LayoutOf(frames[f].bindings) = LayoutOf(frames[f].pipeline.bindings)
    /\ LayoutOf(frames[f].bindings) = FixedLayout
    /\ frames[f].state = "Recording" => RenderTargetOf(frames[f].bindings) = mOffscreenImageView
    /\ frames[f].copySource # 0 => RenderTargetOf(frames[f].bindings) = frames[f].copySource
    /\ RenderTargetOf(frames[f].bindings) = frames[f].pipeline.renderTarget

\* A frame is being recorded against the render target of a resize while a
\* frame recorded against the first render target is around.
C16_Witness ==
  /\ pc = "push_constants"
  /\ mOffscreenImageView = 2
  /\ Cur \in FramesWithDescriptors
  /\ 1 \in FramesWithDescriptors
  /\ RenderTargetOf(frames[1].bindings) = 1

\* C20: a swapchain-resize event recreates the render target before the
\* pipeline, so the pipeline it leaves names the new render target and never a
\* superseded or destroyed one; the descriptor-cache cleanup for the old image
\* view runs in a later step, when both have been replaced.
C20_RenderTargetRebuiltBeforePipeline ==
  /\ [](mOffscreenImageView # 0 =>
          /\ mPipeline.renderTarget = mOffscreenImageView
          /\ mPipeline.renderTarget \notin superseded \cup destroyed)
  /\ [][/\ (mOffscreenImageView # 0 /\ mOffscreenImageView' # mOffscreenImageView) =>
             /\ mPipeline'.handle # mPipeline.handle
             /\ mPipeline'.renderTarget = mOffscreenImageView'
             /\ mOffscreenImageView \in superseded'
             /\ UNCHANGED <<mDescriptorCache, destroyed>>
        /\ \A h \in destroyed' \ destroyed :
             /\ h \in superseded
             /\ h \notin {mOffscreenImageView, mPipeline.renderTarget}
             /\ mDescriptorCache' = RemoveSetsWithHandle(mDescriptorCache, h)
             /\ UNCHANGED <<mOffscreenImageView, mPipeline>>]_vars

\* The first render target was replaced, used by a frame, and its cleanup ran.
C20_Witness ==
  /\ 1 \in destroyed
  /\ mOffscreenImageView = 2
  /\ mPipeline.renderTarget = 2
  /\ \E f \in 1..Len(frames) : frames[f].copySource = 1

\* ----------------------------------------- properties of the push constants

\* Frames whose render() has written the push constants.
FramesWithPushConstants == { f \in 1..Len(frames) : frames[f].pushConstants.data # <<>> }

\* C17: the block written in every frame is a 4x4 float matrix at offset 0 (64
\* bytes), the half field of view at 64, three floats of value 0 at 68, 72 and
\* 76, and the light direction at 80 as four floats the last of which is 0, 96
\* bytes in all; it is written at offset 0 with that size for the ray
\* generation and the closest-hit stages, the stages and the range of the
\* push-constant binding of the pipeline the frame bound.
C17_PushConstantBlockLayout ==
  \A f \in FramesWithPushConstants :
    LET block == frames[f].pushConstants
    IN /\ Len(block.data) = Len(PushConstData)
       /\ [i \in 1..Len(PushConstData) |-> OffsetOfMember(PushConstData, i)]
            = <<0, 64, 68, 72, 76, 80>>
       /\ [i \in 1..Len(PushConstData) |-> SizeOfType(PushConstData[i].type)]
            = <<64, 4, 4, 4, 4, 16>>
       /\ SizeOf(PushConstData) = 96
       /\ block.data[2] = <<"glm::radians", 45, "* 0.5f">>
       /\ \A i \in 3..5 : block.data[i] = 0
       /\ Len(block.data[6]) = 4
       /\ block.data[6][4] = 0
       /\ block.offset = 0
       /\ block.size = 96
       /\ block.stages = {"ray_generation", "closest_hit"}
       /\ block.stages = frames[f].pipeline.pushConstants.stages
       /\ block.offset = frames[f].pipeline.pushConstants.offset
       /\ block.size = frames[f].pipeline.pushConstants.size

\* The second frame has just written its push constants.
C17_Witness ==
  /\ pc = "trace_rays"
  /\ Cur >= 2
  /\ Cur \in FramesWithPushConstants
  /\ frames[Cur].pushConstants.size = 96

\* ------------------------------------------- properties of the submission

\* C19: every submission of render() waits on the image-available semaphore of
\* its frame and on no other, the semaphore is consumed once per frame and not
\* before the submission, and no frame's GPU work has run before the frame's
\* backbuffer image became available.
C19_SubmissionWaitsForImageAvailable ==
  \A f \in 1..Len(frames) :
    /\ frames[f].state = "Recording" =>
         frames[f].semaphoresConsumed = 0 /\ frames[f].waitSemaphores = {}
    /\ frames[f].state \in {"Submitted", "Retired"} =>
         frames[f].semaphoresConsumed = 1 /\ frames[f].waitSemaphores = {f}
    /\ frames[f].state = "Retired" => f \in SignalledSemaphores

\* Two frames are submitted, the first one's image is available and its work
\* done, the second one's image is not and its work waits.
C19_Witness ==
  /\ Len(frames) >= 2
  /\ frames[1].state = "Retired"
  /\ frames[2].state = "Submitted"
  /\ imagesAvailable = 1
  /\ "copy_image_to_another" \in { frames[2].cmds[i][1] : i \in 1..Len(frames[2].cmds) }

\* -------------------------------------------------- properties of failures

\* C14: when a call of render() has failed, the exception has reached main(),
\* main() has logged it and the session has ended by main() returning; the
\* failed frame is the last one, it was not submitted and no frame was recorded
\* after it.
C14_RenderFailureLoggedInMain ==
  pc \in {"exited", "terminated"} =>
    /\ exception # "none"
    /\ Len(errorLog) = 1
    /\ errorLog[1][2] = exception
    /\ pc = "exited"
    /\ frames[Len(frames)].state = "Abandoned"
    /\ frames[Len(frames)].cmdbfr.submits = 0
    /\ \A f \in 1..(Len(frames) - 1) : frames[f].state \in {"Submitted", "Retired"}

\* ------------------------------------------------ properties of the input mode

\* C22: a press of F1 flips the camera's enabled state and sets the UI's user
\* interaction to the negation of the camera's new state; so after one press
\* or more exactly one of scene navigation and UI interaction is active, a
\* press changes which one, and two presses in a row bring back the camera's
\* state and, once the toggle has set it, the UI's.
C22_ToggleAlternatesInputMode ==
  /\ [](modeBeforeLastPress # <<>> =>
          /\ uiUserInteraction = <<~cameraEnabled>>
          /\ cameraEnabled = ~modeBeforeLastPress[1])
  /\ [][modeBeforeLastPress' # modeBeforeLastPress =>
          /\ modeBeforeLastPress' = <<cameraEnabled, uiUserInteraction>>
          /\ cameraEnabled' = ~cameraEnabled
          /\ uiUserInteraction' = <<~cameraEnabled'>>
          /\ modeBeforeLastPress # <<>> =>
               /\ cameraEnabled' = modeBeforeLastPress[1]
               /\ modeBeforeLastPress[2] # <<>> =>
                    uiUserInteraction' = modeBeforeLastPress[2]]_vars

\* F1 was pressed three times: UI interaction, scene navigation, UI interaction.
C22_Witness ==
  /\ ~cameraEnabled
  /\ uiUserInteraction = <<TRUE>>
  /\ modeBeforeLastPress = <<TRUE, <<FALSE>>>>

\* ------------------------------------------- properties of the light direction

\* A vector of length 1, to within a hundredth of its squared length.
IsUnitVector(v) ==
  /\ Dot(v) * 100 >= UnitLength * UnitLength * 99
  /\ Dot(v) * 100 <= UnitLength * UnitLength * 101

\* C23: in every push-constant write of render(), from the first frame on, the
\* xyz part of the light direction is a unit vector and its w component is 0.
C23_LightDirectionIsUnitVector ==
  \A f \in FramesWithPushConstants :
    LET lightDir == frames[f].pushConstants.data[6]
    IN /\ IsUnitVector(<<lightDir[1], lightDir[2], lightDir[3]>>)
       /\ lightDir[4] = 0

\* ------------------------------------------- properties of the ingested state

\* initialize() is at or before its line 120.
InInitialize == pc \in {"models", "partitions", "ingested"}

====
